---- MODULE Spec2Model ----
(***************************************************************************)
(* The fixed-window rate limiter of app/core/security.py                   *)
(* (RateLimiter.check_rate_limit), the Redis wrapper it awaits             *)
(* (app/core/redis.py) and the three endpoints of                          *)
(* app/api/v1/endpoints/auth.py that guard themselves with it.             *)
(* Further: the same limiter in front of a Redis server that refuses or    *)
(* stops answering, the login endpoint behind its rate check               *)
(* (auth.py, main.py), and the plan table of app/core/plan_limits.py.      *)
(*                                                                         *)
(* Every `await redis_client.<op>` is one atomic step on the Redis server  *)
(* and a suspension point of the coroutine: other requests and the expiry  *)
(* of keys interleave between two steps of one call.                       *)
(*                                                                         *)
(* A Python Optional[T] is written as a set of at most one element:        *)
(* None is {} and a value v is {v}.                                        *)
(***************************************************************************)
EXTENDS Integers, Sequences, FiniteSets, TLC

\* ---------------------------------------------------------------- bounds

\* concurrently running request handlers (coroutines)
NumProcs == 3
\* distinct client addresses (the `key` argument of check_rate_limit)
NumKeys == 1
\* RateLimiter.requests ranges over 1..MaxRequests
MaxRequests == 3
\* RateLimiter.window ranges over 1..MaxWindow (seconds)
MaxWindow == 2
\* admissions counted per window of a key
MaxAdmits == 4
\* seconds that pass in one step of the clock while the endpoints run
EndpointTick == 900
\* the largest count a stored decimal string is read back as
MaxCount == 30

Procs == 1..NumProcs
Keys == 1..NumKeys

\* ------------------------------------------------------- program constants

SignupRequests == 5
SignupWindow == 3600
LoginRequests == 10
LoginWindow == 900
RefreshRequests == 20
RefreshWindow == 3600
DefaultRequests == 100
DefaultWindow == 60

\* Redis TTL replies for a key without expiry and for a missing key
NoExpiry == -1
NoKey == -2

None == {}
Some(v) == {v}
TheValue(opt) == CHOOSE v \in opt : TRUE

\* ------------------------------------------------------------- the limiter

\* RateLimiter.__init__: the instance keeps its three arguments as given
RateLimiter(requests, window, identifier) ==
    [requests |-> requests, window |-> window, identifier |-> identifier]

\* get_rate_limiter: identifier is left at its default, "ip"
get_rate_limiter(requests, window) == RateLimiter(requests, window, "ip")

\* redis_key = f"rate_limit:{self.identifier}:{key}"
RedisKey(identifier, key) == <<"rate_limit", identifier, key>>

\* int(current): the decimal string the store holds, as a number
IntOf(s) == CHOOSE n \in 0..MaxCount : ToString(n) = s

\* ------------------------------------------------------------ the store

\* GET: the value, or None for a missing key
StoreGet(s, rk) == IF rk \in DOMAIN s THEN Some(s[rk].val) ELSE None

\* a SET that opens the window without counting the request that opened it
StoreSetUncounted(s, rk, value, ex) ==
    [x \in DOMAIN s \cup {rk} |->
        IF x = rk THEN [val |-> "0", ttl |-> ex] ELSE s[x]]

\* SET key value EX seconds: overwrites value and expiry unconditionally
StoreSet(s, rk, value, ex) ==
    [x \in DOMAIN s \cup {rk} |->
        IF x = rk THEN [val |-> value, ttl |-> ex] ELSE s[x]]

\* INCR: a missing key is created with value 1 and no expiry; the expiry of
\* an existing key is kept
StoreIncr(s, rk) ==
    IF rk \in DOMAIN s
    THEN [s EXCEPT ![rk].val = ToString(IntOf(@) + 1)]
    ELSE [x \in DOMAIN s \cup {rk} |->
            IF x = rk THEN [val |-> "1", ttl |-> NoExpiry] ELSE s[x]]

\* TTL as the server answers it
ServerTtl(s, rk) == IF rk \in DOMAIN s THEN s[rk].ttl ELSE NoKey

\* RedisClient.ttl: `return result if result >= -1 else None`
ClientTtl(s, rk) ==
    LET result == ServerTtl(s, rk)
    IN  IF result >= -1 THEN Some(result) ELSE None

\* a server that drops every expiring key at the next second, however long
\* it was set to live
ElapseForgets(s, dt) ==
    [x \in {y \in DOMAIN s : s[y].ttl = NoExpiry} |-> s[x]]

\* dt seconds pass: every expiry comes dt closer, and a key whose expiry is
\* reached is gone
Elapse(s, dt) ==
    LET live == {x \in DOMAIN s : s[x].ttl = NoExpiry \/ s[x].ttl > dt}
    IN  [x \in live |->
            IF s[x].ttl = NoExpiry THEN s[x] ELSE [s[x] EXCEPT !.ttl = @ - dt]]

\* ------------------------------------------------------------ plan limits

\* the feature list every plan of PlanLimits.LIMITS carries
AllFeatures ==
    <<"data_cleaning", "pivot_tables", "formula_assistant", "script_assistant",
      "sql_assistant", "regex_assistant", "template_generator">>

\* a table whose records carry the tool-use reset period in both units
LimitsTableBothUnits ==
    [t \in {"FREE", "PRO", "PRO_PLUS"} |->
        [ai_messages_per_period |-> 10, ai_messages_reset_days |-> 30,
         tool_usage_per_period |-> 4, tool_usage_reset_hours |-> 12,
         tool_usage_reset_days |-> 30,
         max_file_size_mb |-> 5, max_files_per_chat |-> 5,
         features |-> AllFeatures]]

\* PlanLimits.LIMITS as the class body builds it: PlanType -> record
LimitsTable ==
    [t \in {"FREE", "PRO", "PRO_PLUS"} |->
        CASE t = "FREE" ->
                [ai_messages_per_period |-> 10, ai_messages_reset_days |-> 30,
                 tool_usage_per_period |-> 4, tool_usage_reset_hours |-> 12,
                 max_file_size_mb |-> 5, max_files_per_chat |-> 5,
                 features |-> AllFeatures]
          [] t = "PRO" ->
                [ai_messages_per_period |-> 3000, ai_messages_reset_days |-> 30,
                 tool_usage_per_period |-> 3000, tool_usage_reset_days |-> 30,
                 max_file_size_mb |-> 50, max_files_per_chat |-> 10,
                 features |-> AllFeatures]
          [] t = "PRO_PLUS" ->
                [ai_messages_per_period |-> 10000, ai_messages_reset_days |-> 30,
                 tool_usage_per_period |-> 10000, tool_usage_reset_days |-> 30,
                 max_file_size_mb |-> 100, max_files_per_chat |-> 15,
                 features |-> AllFeatures]]

\* ----------------------------------------------------------------- state

VARIABLES
    store,      \* Redis: redis key -> [val: decimal string, ttl: seconds or NoExpiry]
    rl,         \* the RateLimiter instance shared by the direct callers
    frame,      \* per coroutine: where it is in check_rate_limit, and its locals
    win,        \* history: per redis key, the admissions of its current window
    served,     \* history: the (key, scope) pairs a request has been answered for
    net,        \* how the Redis server answers: "up", "down" (refuses), "silent"
    ops,        \* history: per coroutine, the store operations its call has issued
    log,        \* history: per redis key, the admissions returned, by age in seconds
    stage,      \* per coroutine: how far its login request has come
    LIMITS,     \* PlanLimits.LIMITS, the class attribute
    plan,       \* the PlanLimits classmethod being called, its arguments and its result
    db,         \* the database: the committed rows of users, subscriptions, user_sessions
    req,        \* the HTTP request being handled: its handler, its session, its response
    client,     \* redis_client: the RedisClient wrapper's _client and _pool
    boot,       \* the lifespan of the application: its position and its locals
    now,        \* the clock the tokens and the sessions are stamped with
    revoked     \* history: the refresh token whose session the last logout deleted

limiterVars == <<store, rl, frame, win, served>>
appVars == <<db, req, client, boot, now, revoked>>
otherVars == <<net, ops, log, stage, LIMITS, plan, appVars>>
vars == <<store, rl, frame, win, served, net, ops, log, stage, LIMITS, plan,
          db, req, client, boot, now, revoked>>

RedisKeys == {RedisKey("ip", k) : k \in Keys}

IdleFrame ==
    [pc |-> "idle", self |-> get_rate_limiter(DefaultRequests, DefaultWindow),
     key |-> None, current |-> None, scope |-> "none", branch |-> "none",
     result |-> None]

\* a window that has admitted nothing yet
NewWindow == [admitted |-> 0, sets |-> 0]

Limiters ==
    {get_rate_limiter(n, w) : n \in 1..MaxRequests, w \in 1..MaxWindow}

\* no store operation issued yet
NoOps == [get |-> 0, set |-> 0, incr |-> 0, ttl |-> 0]

\* no admission returned in the last MaxWindow seconds
NoLog == [age \in 0..(MaxWindow - 1) |-> 0]

\* no classmethod of PlanLimits has been called
NoCall ==
    [fn |-> "none", plan_type |-> None, feature |-> "", pc |-> "returned", out |-> None]

InitLimiter ==
    /\ store = << >>
    /\ frame = [p \in Procs |-> IdleFrame]
    /\ win = [rk \in RedisKeys |-> NewWindow]
    /\ served = {}

InitNet == net = "up"
InitMeters ==
    /\ ops = [p \in Procs |-> NoOps]
    /\ log = [rk \in RedisKeys |-> NoLog]
InitLogin == stage = [p \in Procs |-> "none"]
InitPlan ==
    /\ LIMITS = LimitsTable
    /\ plan = NoCall

\* no row committed, no request being handled
NoRows == [users |-> {}, subscriptions |-> {}, user_sessions |-> {}]
NoRequest ==
    [handler |-> "none", pc |-> "responded", rate_info |-> None,
     status |-> None, detail |-> None, did |-> {},
     arg |-> None, user |-> None, pending |-> {}, commits |-> 0, rollbacks |-> 0]
\* RedisClient.__init__, and the application before its lifespan is entered
NoClient == [_pool |-> None, _client |-> None, last |-> "none"]
NotStarted ==
    [pc |-> "created", failed_critical |-> << >>, attempted |-> {}, passed |-> {},
     error |-> None, worker_count |-> None]
InitIdle ==
    /\ req = NoRequest
    /\ client = NoClient
    /\ boot = NotStarted
    /\ now = 0
    /\ revoked = None
InitApp ==
    /\ db = NoRows
    /\ InitIdle

InitCommon ==
    /\ InitLimiter
    /\ InitNet
    /\ InitMeters
    /\ InitLogin
    /\ InitPlan
    /\ InitApp

\* a step of the limiter alone: nothing else of the program moves
Quiet == UNCHANGED otherVars

Init ==
    /\ InitCommon
    /\ rl \in Limiters

\* ------------------------------------------------------- check_rate_limit

KeyOf(p) == RedisKey(frame[p].self.identifier, TheValue(frame[p].key))

\* a comparison that lets the request at the limit through
LimitPassed(count, requests) == count > requests

\* `if count >= self.requests`
LimitReached(count, requests) == count >= requests

\* the dict check_rate_limit returns
Decision(allowed, limit, remaining, reset) ==
    [allowed |-> allowed, limit |-> limit, remaining |-> remaining, reset |-> reset]

\* a remaining budget that forgets the request being admitted
RemainingBeforeThis(requests, count) == requests - count

\* `"remaining": self.requests - count - 1`
Remaining(requests, count) == requests - count - 1

\* a first decision that reports the whole budget as remaining
FirstDecisionFullBudget(self) ==
    Decision(TRUE, self.requests, self.requests, Some(self.window))

\* the dict returned for the first request of a window
FirstDecision(self) ==
    Decision(TRUE, self.requests, self.requests - 1, Some(self.window))

\* the history of a window after one more decision
Count(w, d, branch) ==
    IF d.allowed /\ w.admitted < MaxAdmits
    THEN [admitted |-> w.admitted + 1,
          sets |-> IF branch = "set" THEN w.sets + 1 ELSE w.sets]
    ELSE w

\* the call returns d: the caller holds it until it goes on
Return(p, d, branch, newWindow) ==
    LET rk == KeyOf(p)
        w  == IF newWindow THEN NewWindow ELSE win[rk]
    IN  /\ frame' = [frame EXCEPT ![p].pc = "done", ![p].branch = branch,
                                  ![p].result = Some(d)]
        /\ win' = [win EXCEPT ![rk] = Count(w, d, branch)]
        /\ UNCHANGED served

\* current = await redis_client.get(redis_key)
Enter(p, lim, key, scope) ==
    /\ frame[p].pc = "idle"
    /\ frame' = [frame EXCEPT ![p] =
                    [pc |-> "got", self |-> lim, key |-> Some(key),
                     current |-> StoreGet(store, RedisKey(lim.identifier, key)),
                     scope |-> scope, branch |-> "none", result |-> None]]
    /\ UNCHANGED <<store, rl, win, served>>

\* `if current is None`: set the key to "1" with ex=self.window and return
FirstRequest(p) ==
    /\ frame[p].pc = "got"
    /\ frame[p].current = None
    /\ LET self == frame[p].self
           rk == KeyOf(p)
       IN  /\ store' = StoreSet(store, rk, "1", self.window)
           /\ Return(p, FirstDecision(self), "set", rk \notin DOMAIN store)
    /\ UNCHANGED rl

\* `if count >= self.requests`: read the ttl and return the refusal
Refuse(p) ==
    /\ frame[p].pc = "got"
    /\ frame[p].current # None
    /\ LET self == frame[p].self
           count == IntOf(TheValue(frame[p].current))
       IN  /\ LimitReached(count, self.requests)
           /\ Return(p, Decision(FALSE, self.requests, 0, ClientTtl(store, KeyOf(p))),
                     "deny", FALSE)
    /\ UNCHANGED <<store, rl>>

\* await redis_client.incr(redis_key)
Increment(p) ==
    /\ frame[p].pc = "got"
    /\ frame[p].current # None
    /\ LET self == frame[p].self
           count == IntOf(TheValue(frame[p].current))
           rk == KeyOf(p)
       IN  /\ ~LimitReached(count, self.requests)
           /\ store' = StoreIncr(store, rk)
           /\ win' = IF rk \in DOMAIN store THEN win ELSE [win EXCEPT ![rk] = NewWindow]
    /\ frame' = [frame EXCEPT ![p].pc = "incred"]
    /\ UNCHANGED <<rl, served>>

\* ttl = await redis_client.ttl(redis_key), and the admission is returned
Admit(p) ==
    /\ frame[p].pc = "incred"
    /\ LET self == frame[p].self
           count == IntOf(TheValue(frame[p].current))
       IN  Return(p, Decision(TRUE, self.requests, Remaining(self.requests, count),
                              ClientTtl(store, KeyOf(p))),
                  "incr", FALSE)
    /\ UNCHANGED <<store, rl>>

\* the caller goes on with the decision it was given
Leave(p) ==
    /\ frame[p].pc = "done"
    /\ frame' = [frame EXCEPT ![p] = IdleFrame]
    /\ served' = served \cup {<<TheValue(frame[p].key), frame[p].scope>>}
    /\ UNCHANGED <<store, rl, win>>

\* the awaiting request is cancelled: the coroutine ends at its await and
\* returns nothing; what it wrote stays
Cancel(p) ==
    /\ frame[p].pc \in {"got", "incred"}
    /\ frame' = [frame EXCEPT ![p] = IdleFrame]
    /\ UNCHANGED <<store, rl, win, served>>

\* time passes on the Redis server
Tick(dt) ==
    /\ \E rk \in DOMAIN store : store[rk].ttl # NoExpiry
    /\ store' = Elapse(store, dt)
    /\ UNCHANGED <<rl, frame, win, served>>

\* ----------------------------------------------- concurrent direct callers

Call(p, key) == Enter(p, rl, key, "direct")

Next ==
    \/ \E p \in Procs, key \in Keys : Call(p, key) /\ Quiet
    \/ \E p \in Procs : FirstRequest(p) /\ Quiet
    \/ \E p \in Procs : Refuse(p) /\ Quiet
    \/ \E p \in Procs : Increment(p) /\ Quiet
    \/ \E p \in Procs : Admit(p) /\ Quiet
    \/ \E p \in Procs : Leave(p) /\ Quiet
    \/ \E p \in Procs : Cancel(p) /\ Quiet
    \/ Tick(1) /\ Quiet

Spec == Init /\ [][Next]_vars

\* -------------------------------------------- calls that do not overlap

AllIdle == \A q \in Procs : frame[q].pc = "idle"

SeqCall(p, key) == AllIdle /\ Enter(p, rl, key, "direct")

SeqNext ==
    \/ \E p \in Procs, key \in Keys : SeqCall(p, key) /\ Quiet
    \/ \E p \in Procs : FirstRequest(p) /\ Quiet
    \/ \E p \in Procs : Refuse(p) /\ Quiet
    \/ \E p \in Procs : Increment(p) /\ Quiet
    \/ \E p \in Procs : Admit(p) /\ Quiet
    \/ \E p \in Procs : Leave(p) /\ Quiet
    \/ Tick(1) /\ Quiet

SeqSpec == Init /\ [][SeqNext]_vars

\* ------------------------------ limiters built with a budget of 0 or less
\*
\* RateLimiter.__init__ and get_rate_limiter take any integers.  (A window of
\* 0 or less is left out: the server refuses SET ... EX 0.)

InvalidLimiters ==
    {get_rate_limiter(n, w) : n \in (-1)..0, w \in 1..MaxWindow}

ConfigInit ==
    /\ InitCommon
    /\ rl \in Limiters \cup InvalidLimiters

ConfigSpec == ConfigInit /\ [][SeqNext]_vars

\* ------------------------------------------------------------ endpoints

\* signup: rate_limiter = get_rate_limiter(requests=5, window=3600)
signup(p, client_ip) ==
    Enter(p, get_rate_limiter(SignupRequests, SignupWindow), client_ip, "signup")

\* login: rate_limiter = get_rate_limiter(requests=10, window=900)
login(p, client_ip) ==
    Enter(p, get_rate_limiter(LoginRequests, LoginWindow), client_ip, "login")

\* refresh_token: rate_limiter = get_rate_limiter(requests=20, window=3600)
refresh_token(p, client_ip) ==
    Enter(p, get_rate_limiter(RefreshRequests, RefreshWindow), client_ip, "refresh")

EndpointInit ==
    /\ InitCommon
    /\ rl = get_rate_limiter(DefaultRequests, DefaultWindow)

EndpointNext ==
    \/ \E p \in Procs, ip \in Keys : AllIdle /\ signup(p, ip) /\ Quiet
    \/ \E p \in Procs, ip \in Keys : AllIdle /\ login(p, ip) /\ Quiet
    \/ \E p \in Procs, ip \in Keys : AllIdle /\ refresh_token(p, ip) /\ Quiet
    \/ \E p \in Procs : FirstRequest(p) /\ Quiet
    \/ \E p \in Procs : Refuse(p) /\ Quiet
    \/ \E p \in Procs : Increment(p) /\ Quiet
    \/ \E p \in Procs : Admit(p) /\ Quiet
    \/ \E p \in Procs : Leave(p) /\ Quiet
    \/ Tick(EndpointTick) /\ Quiet

EndpointSpec == EndpointInit /\ [][EndpointNext]_vars

\* ------------------------------- calls that do not overlap, with a clock
\*
\* The same calls, told with what the caller can measure: the store
\* operations each call issues and the second in which each admission is
\* returned.  The reply of the SET travels back while time goes on, so the
\* write and the return of the first request are two steps here.

\* one more operation of this kind sent to the store by p's call
Issued(p, op) == ops' = [ops EXCEPT ![p][op] = @ + 1]

\* the admissions per age, one second later (ages the window of the limiter
\* has left behind are dropped)
Aged(l) ==
    [age \in DOMAIN l |-> IF age = 0 \/ age >= rl.window THEN 0 ELSE l[age - 1]]

\* p's call returns in this step: an admission is logged at age 0
Logged(p) ==
    log' = IF frame'[p].pc = "done" /\ \A d \in frame'[p].result : d.allowed
           THEN [log EXCEPT ![RedisKey(frame'[p].self.identifier,
                                       TheValue(frame'[p].key))][0] = @ + 1]
           ELSE log

Still == UNCHANGED <<net, stage, LIMITS, plan, appVars>>

\* current = await redis_client.get(redis_key)
MeteredCall(p, key) ==
    /\ SeqCall(p, key)
    /\ ops' = [ops EXCEPT ![p] = [NoOps EXCEPT !.get = 1]]
    /\ Still

\* await redis_client.set(redis_key, "1", ex=self.window): the server has
\* written, the coroutine is still suspended
FirstSet(p) ==
    /\ frame[p].pc = "got"
    /\ frame[p].current = None
    /\ LET rk == KeyOf(p)
       IN  /\ store' = StoreSet(store, rk, "1", frame[p].self.window)
           /\ win' = IF rk \in DOMAIN store THEN win ELSE [win EXCEPT ![rk] = NewWindow]
    /\ frame' = [frame EXCEPT ![p].pc = "wrote"]
    /\ Issued(p, "set")
    /\ UNCHANGED <<rl, served>>
    /\ Still

\* a first return that asks the store for the ttl of the key it has just set
FirstReturnReadsTtl(p) ==
    /\ frame[p].pc = "wrote"
    /\ Return(p, FirstDecision(frame[p].self), "set", FALSE)
    /\ Issued(p, "ttl")
    /\ UNCHANGED <<store, rl>>
    /\ Still

\* the set has completed: `return {"allowed": True, ..., "reset": self.window}`
FirstReturn(p) ==
    /\ frame[p].pc = "wrote"
    /\ Return(p, FirstDecision(frame[p].self), "set", FALSE)
    /\ UNCHANGED <<store, rl, ops>>
    /\ Still

\* ttl = await redis_client.ttl(redis_key) and the refusal
MeteredRefuse(p) == Refuse(p) /\ Issued(p, "ttl") /\ Still

\* await redis_client.incr(redis_key)
MeteredIncrement(p) == Increment(p) /\ Issued(p, "incr") /\ Still

\* ttl = await redis_client.ttl(redis_key) and the admission
MeteredAdmit(p) == Admit(p) /\ Issued(p, "ttl") /\ Still

\* the caller goes on; the meters of its call are cleared
MeteredLeave(p) ==
    /\ Leave(p)
    /\ ops' = [ops EXCEPT ![p] = NoOps]
    /\ Still

\* one second passes, whether or not a key is waiting to expire
Second ==
    /\ store' = Elapse(store, 1)
    /\ log' = [rk \in DOMAIN log |-> Aged(log[rk])]
    /\ UNCHANGED <<rl, frame, win, served, ops>>
    /\ Still

\* calls that do not overlap are made one after the other: which coroutine
\* makes them is immaterial, so one coroutine makes them all
Caller == CHOOSE p \in Procs : \A q \in Procs : p <= q

TimedNext ==
    \/ \E key \in Keys : MeteredCall(Caller, key) /\ UNCHANGED log
    \/ \E p \in Procs : FirstSet(p) /\ UNCHANGED log
    \/ \E p \in Procs : FirstReturn(p) /\ Logged(p)
    \/ \E p \in Procs : MeteredRefuse(p) /\ Logged(p)
    \/ \E p \in Procs : MeteredIncrement(p) /\ UNCHANGED log
    \/ \E p \in Procs : MeteredAdmit(p) /\ Logged(p)
    \/ \E p \in Procs : MeteredLeave(p) /\ UNCHANGED log
    \/ Second

TimedSpec == Init /\ [][TimedNext]_vars

\* --------------------------------------------- a store that can be away
\*
\* The Redis server is reachable ("up"), refuses or drops the connection
\* ("down": the awaited operation raises), or has stopped answering
\* ("silent": the connection is held open and no reply comes).  The pool is
\* built with socket_connect_timeout only, and check_rate_limit awaits each
\* operation without a timeout and without try/except.

NetStates == {"up", "down", "silent"}

\* the server or the network changes under the program
Net(n) ==
    /\ n # net
    /\ net' = n
    /\ UNCHANGED <<limiterVars, ops, log, stage, LIMITS, plan, appVars>>

\* the store operation p's call awaits next
NextOp(p) ==
    IF frame[p].pc = "incred" THEN "ttl"
    ELSE IF frame[p].current = None THEN "set"
    ELSE IF LimitReached(IntOf(TheValue(frame[p].current)), frame[p].self.requests)
         THEN "ttl" ELSE "incr"

\* redis_client.get raises: the call ends before it has read anything
RaiseAtGet(p, lim, key, scope) ==
    /\ AllIdle
    /\ net = "down"
    /\ frame' = [frame EXCEPT ![p] =
                    [IdleFrame EXCEPT !.pc = "raised", !.self = lim,
                                      !.key = Some(key), !.scope = scope]]
    /\ ops' = [ops EXCEPT ![p] = [NoOps EXCEPT !.get = 1]]
    /\ UNCHANGED <<store, rl, win, served, log, net, stage, LIMITS, plan, appVars>>

\* a failed operation that is sent again by the same call
RaiseAfterRetry(p) ==
    /\ net = "down"
    /\ frame[p].pc \in {"got", "incred"}
    /\ frame' = [frame EXCEPT ![p].pc = "raised"]
    /\ ops' = [ops EXCEPT ![p][NextOp(p)] = @ + 2]
    /\ UNCHANGED <<store, rl, win, served, log, net, stage, LIMITS, plan, appVars>>

\* the awaited operation raises (or the reply of the set is lost with the
\* connection): nothing catches it, the exception leaves check_rate_limit
Raise(p) ==
    /\ net = "down"
    /\ frame[p].pc \in {"got", "wrote", "incred"}
    /\ frame' = [frame EXCEPT ![p].pc = "raised"]
    /\ ops' = IF frame[p].pc = "wrote" THEN ops
              ELSE [ops EXCEPT ![p][NextOp(p)] = @ + 1]
    /\ UNCHANGED <<store, rl, win, served, log, net, stage, LIMITS, plan, appVars>>

\* the exception has reached the caller of check_rate_limit
Unwind(p) ==
    /\ frame[p].pc = "raised"
    /\ frame' = [frame EXCEPT ![p] = IdleFrame]
    /\ ops' = [ops EXCEPT ![p] = NoOps]
    /\ UNCHANGED <<store, rl, win, served, log, net, stage, LIMITS, plan, appVars>>

\* the store answers the operation p's call awaits
Answer(p) ==
    /\ net = "up"
    /\ \/ FirstSet(p)
       \/ FirstReturn(p)
       \/ MeteredRefuse(p)
       \/ MeteredIncrement(p)
       \/ MeteredAdmit(p)
    /\ UNCHANGED log

\* the steps of p's call that wait for nothing but the store
Proceed(p) == Answer(p) \/ Raise(p)

\* time passes on the Redis server; nobody looks at the clock
Expire(dt) == Tick(dt) /\ UNCHANGED <<ops, log>> /\ Still

OutageNext ==
    \/ \E key \in Keys : net = "up" /\ MeteredCall(Caller, key) /\ UNCHANGED log
    \/ \E key \in Keys : RaiseAtGet(Caller, rl, key, "direct")
    \/ \E p \in Procs : net = "up" /\ FirstSet(p) /\ UNCHANGED log
    \/ \E p \in Procs : net = "up" /\ FirstReturn(p) /\ UNCHANGED log
    \/ \E p \in Procs : net = "up" /\ MeteredRefuse(p) /\ UNCHANGED log
    \/ \E p \in Procs : net = "up" /\ MeteredIncrement(p) /\ UNCHANGED log
    \/ \E p \in Procs : net = "up" /\ MeteredAdmit(p) /\ UNCHANGED log
    \/ \E p \in Procs : Raise(p)
    \/ \E p \in Procs : MeteredLeave(p) /\ UNCHANGED log
    \/ \E p \in Procs : Unwind(p)
    \/ \E n \in NetStates : Net(n)
    \/ Expire(1)

\* the event loop resumes a coroutine whose awaited operation has completed
OutageSpec ==
    /\ Init
    /\ [][OutageNext]_vars
    /\ \A p \in Procs : WF_vars(Proceed(p))

\* ------------------------------------------------------ the login endpoint
\*
\* login awaits check_rate_limit first and goes on to the user lookup, the
\* password check, the is_active check and the session only with the
\* Decision in hand; an exception it does not catch is answered by
\* general_exception_handler.  One request is handled at a time.

\* what login is doing after the rate check, or the status it has answered
Working == {"lookup", "verify", "active", "session"}
Statuses == {"200", "401", "403", "429", "500"}

Moves(p, to) ==
    /\ stage' = [stage EXCEPT ![p] = to]
    /\ UNCHANGED <<limiterVars, net, ops, log, LIMITS, plan, appVars>>

\* rate_info = await rate_limiter.check_rate_limit(request, client_ip)
LoginStart(p, client_ip) ==
    /\ AllIdle
    /\ stage[p] = "none"
    /\ net = "up"
    /\ login(p, client_ip)
    /\ Quiet

\* the same await, refused by the store at the get
LoginStartFails(p, client_ip) ==
    /\ stage[p] = "none"
    /\ RaiseAtGet(p, get_rate_limiter(LoginRequests, LoginWindow), client_ip, "login")

\* `if not rate_info["allowed"]: raise HTTPException(429)`
TooManyRequests(p) ==
    /\ stage[p] = "none"
    /\ frame[p].pc = "done"
    /\ \A d \in frame[p].result : ~d.allowed
    /\ Moves(p, "429")

\* rate_info["allowed"]: user = await get_user_by_email(db, data.email)
Lookup(p) ==
    /\ stage[p] = "none"
    /\ frame[p].pc = "done"
    /\ \A d \in frame[p].result : d.allowed
    /\ Moves(p, "lookup")

\* a handler that takes the failed rate check for an admission
treat_as_allowed(p) ==
    /\ stage[p] = "none"
    /\ frame[p].pc = "raised"
    /\ Moves(p, "lookup")

\* the exception of check_rate_limit leaves login: HTTP 500
general_exception_handler(p) ==
    /\ stage[p] = "none"
    /\ frame[p].pc = "raised"
    /\ Moves(p, "500")

\* `if not user` / verify_password / `if not user.is_active` /
\* create_access_token, create_user_session
Credentials(p, ok) ==
    /\ stage[p] \in Working
    /\ Moves(p, CASE stage[p] = "lookup" -> IF ok THEN "verify" ELSE "401"
                   [] stage[p] = "verify" -> IF ok THEN "active" ELSE "401"
                   [] stage[p] = "active" -> IF ok THEN "session" ELSE "403"
                   [] stage[p] = "session" -> "200")

\* the response is sent and the handler is free for the next request
Respond(p) ==
    /\ stage[p] \in Statuses
    /\ frame[p].pc = "idle"
    /\ Moves(p, "none")

LoginNext ==
    \/ \E ip \in Keys : LoginStart(Caller, ip)
    \/ \E ip \in Keys : LoginStartFails(Caller, ip)
    \/ \E p \in Procs : net = "up" /\ FirstRequest(p) /\ Quiet
    \/ \E p \in Procs : net = "up" /\ Refuse(p) /\ Quiet
    \/ \E p \in Procs : net = "up" /\ Increment(p) /\ Quiet
    \/ \E p \in Procs : net = "up" /\ Admit(p) /\ Quiet
    \/ \E p \in Procs : Raise(p)
    \/ \E p \in Procs : TooManyRequests(p)
    \/ \E p \in Procs : Lookup(p)
    \/ \E p \in Procs : general_exception_handler(p)
    \/ \E p \in Procs, ok \in BOOLEAN : Credentials(p, ok)
    \/ \E p \in Procs : stage[p] \in Statuses /\ Leave(p) /\ Quiet
    \/ \E p \in Procs : stage[p] \in Statuses /\ Unwind(p)
    \/ \E p \in Procs : Respond(p)
    \/ \E n \in NetStates : Net(n)
    \/ Expire(EndpointTick)

LoginSpec == EndpointInit /\ [][LoginNext]_vars

\* ------------------------------------------------------------ PlanLimits
\*
\* The classmethods of PlanLimits read the class attribute LIMITS.  What a
\* call gives back is Ok(value) or Raises(exception).

Ok(v) == [raised |-> FALSE, value |-> v]
Raises(e) == [raised |-> TRUE, value |-> e]

\* d[k] of a dict handed over by a call
Item(r, k) ==
    IF r.raised THEN r
    ELSE IF k \in DOMAIN r.value THEN Ok(r.value[k]) ELSE Raises("KeyError")

\* a lookup that subscripts the table: cls.LIMITS[plan_type]
get_limits_subscript(plan_type) ==
    IF plan_type # None /\ TheValue(plan_type) \in DOMAIN LIMITS
    THEN Ok(LIMITS[TheValue(plan_type)])
    ELSE Raises("KeyError")

\* return cls.LIMITS.get(plan_type, cls.LIMITS[PlanType.FREE])
get_limits(plan_type) ==
    IF plan_type # None /\ TheValue(plan_type) \in DOMAIN LIMITS
    THEN Ok(LIMITS[TheValue(plan_type)])
    ELSE Ok(LIMITS["FREE"])

get_ai_message_limit(plan_type) == Item(get_limits(plan_type), "ai_messages_per_period")

\* a tool-use limit read from the AI message quota
get_tool_usage_limit_from_ai(plan_type) ==
    Item(get_limits(plan_type), "ai_messages_per_period")

get_tool_usage_limit(plan_type) == Item(get_limits(plan_type), "tool_usage_per_period")

get_file_size_limit(plan_type) == Item(get_limits(plan_type), "max_file_size_mb")

get_files_per_chat_limit(plan_type) == Item(get_limits(plan_type), "max_files_per_chat")

\* a feature test that knows the plans of the table only
has_feature_of_known_plan(plan_type, feature) ==
    LET features == Item(get_limits_subscript(plan_type), "features")
    IN  IF features.raised THEN Ok(FALSE)
        ELSE Ok(\E i \in DOMAIN features.value : features.value[i] = feature)

\* return feature in cls.get_limits(plan_type)["features"]
has_feature(plan_type, feature) ==
    LET features == Item(get_limits(plan_type), "features")
    IN  IF features.raised THEN features
        ELSE Ok(\E i \in DOMAIN features.value : features.value[i] = feature)

get_all_features(plan_type) == Item(get_limits(plan_type), "features")

\* the arguments the callers pass: the three plans, two names that are no
\* plan of the table, and None
PlanArgs == {Some(t) : t \in {"FREE", "PRO", "PRO_PLUS", "ENTERPRISE", "TEAM"}} \cup {None}

FeatureArgs ==
    {AllFeatures[i] : i \in DOMAIN AllFeatures} \cup {"nonexistent_feature", ""}

Methods ==
    {"get_limits", "get_ai_message_limit", "get_tool_usage_limit",
     "get_file_size_limit", "get_files_per_chat_limit", "has_feature",
     "get_all_features"}

\* the calls that can be made
Calls ==
    {[fn |-> f, plan_type |-> t, feature |-> x, pc |-> "called", out |-> None] :
        f \in Methods \ {"has_feature"}, t \in PlanArgs, x \in {""}}
    \cup
    {[fn |-> "has_feature", plan_type |-> t, feature |-> x, pc |-> "called",
      out |-> None] : t \in PlanArgs, x \in FeatureArgs}

\* what the classmethod called gives back
Invoke(c) ==
    CASE c.fn = "get_limits" -> get_limits(c.plan_type)
      [] c.fn = "get_ai_message_limit" -> get_ai_message_limit(c.plan_type)
      [] c.fn = "get_tool_usage_limit" -> get_tool_usage_limit(c.plan_type)
      [] c.fn = "get_file_size_limit" -> get_file_size_limit(c.plan_type)
      [] c.fn = "get_files_per_chat_limit" -> get_files_per_chat_limit(c.plan_type)
      [] c.fn = "has_feature" -> has_feature(c.plan_type, c.feature)
      [] c.fn = "get_all_features" -> get_all_features(c.plan_type)

\* the classmethod runs and returns
PlanReturn ==
    /\ plan.pc = "called"
    /\ plan' = [plan EXCEPT !.pc = "returned", !.out = Some(Invoke(plan))]
    /\ UNCHANGED <<limiterVars, net, ops, log, stage, LIMITS, appVars>>

\* the next call is made
PlanCall(c) ==
    /\ plan.pc = "returned"
    /\ plan' = c
    /\ UNCHANGED <<limiterVars, net, ops, log, stage, LIMITS, appVars>>

PlanInit ==
    /\ InitLimiter
    /\ rl = get_rate_limiter(DefaultRequests, DefaultWindow)
    /\ InitNet
    /\ InitMeters
    /\ InitLogin
    /\ InitApp
    /\ LIMITS = LimitsTable
    /\ plan \in Calls

PlanNext ==
    \/ PlanReturn
    \/ \E c \in Calls : PlanCall(c)

PlanSpec == PlanInit /\ [][PlanNext]_vars

\* ------------------------------------------------- callers of PlanLimits

\*
\* get_limits returns the dict held in LIMITS and get_all_features the list
\* held in that dict, not copies: what the caller holds after the call is
\* the object of the table.  A caller that writes to it writes to LIMITS.

\* the plan whose record a call with plan_type hands over
Handed(plan_type) ==
    IF plan_type # None /\ TheValue(plan_type) \in DOMAIN LIMITS
    THEN TheValue(plan_type)
    ELSE "FREE"

\* the caller appends to the list get_all_features returned
CallerAppends(feature) ==
    LET t == Handed(plan.plan_type)
    IN  /\ plan.pc = "returned"
        /\ plan.fn = "get_all_features"
        /\ \A i \in DOMAIN LIMITS[t].features : LIMITS[t].features[i] # feature
        /\ LIMITS' = [LIMITS EXCEPT ![t].features = Append(@, feature)]
        /\ plan' = [plan EXCEPT !.out = Some(Ok(LIMITS'[t].features))]
        /\ UNCHANGED <<limiterVars, net, ops, log, stage, appVars>>

\* the caller assigns to an item of the dict get_limits returned
CallerAssigns(k, v) ==
    LET t == Handed(plan.plan_type)
    IN  /\ plan.pc = "returned"
        /\ plan.fn = "get_limits"
        /\ LIMITS[t][k] # v
        /\ LIMITS' = [LIMITS EXCEPT ![t][k] = v]
        /\ plan' = [plan EXCEPT !.out = Some(Ok(LIMITS'[t]))]
        /\ UNCHANGED <<limiterVars, net, ops, log, stage, appVars>>

CallerNext ==
    \/ PlanReturn
    \/ \E c \in Calls : PlanCall(c)
    \/ CallerAppends("nonexistent_feature")
    \/ CallerAssigns("max_files_per_chat", 0)

CallerSpec == PlanInit /\ [][CallerNext]_vars

\* ------------------------------------- signup, login, refresh: the guard
\*
\* Each of the three endpoints awaits check_rate_limit before anything else
\* and raises HTTPException(429) on a refusal, with rate_info['reset'] in the
\* detail.  `did` collects what the handler has done after the check: the
\* rows it looked up, the rows it created, the tokens it issued.

\* the ways through the handler after an allowed check: status and effects
Paths(handler) ==
    CASE handler = "signup" ->
            {[status |-> "400", did |-> {"lookup"}],
             [status |-> "201", did |-> {"lookup", "user", "session", "token"}]}
      [] handler = "login" ->
            {[status |-> "401", did |-> {"lookup"}],
             [status |-> "403", did |-> {"lookup"}],
             [status |-> "200", did |-> {"lookup", "session", "token"}]}
      [] handler = "refresh" ->
            {[status |-> "401", did |-> {}],
             [status |-> "401", did |-> {"lookup"}],
             [status |-> "200", did |-> {"lookup", "token"}]}

\* a request arrives: rate_info = await rate_limiter.check_rate_limit(...)
Arrive(handler, client_ip) ==
    /\ req.pc = "responded"
    /\ AllIdle
    /\ CASE handler = "signup" -> signup(Caller, client_ip)
         [] handler = "login" -> login(Caller, client_ip)
         [] handler = "refresh" -> refresh_token(Caller, client_ip)
    /\ ops' = [ops EXCEPT ![Caller] = [NoOps EXCEPT !.get = 1]]
    /\ req' = [NoRequest EXCEPT !.handler = handler, !.pc = "limit"]
    /\ UNCHANGED <<store, rl, win, served>>
    /\ UNCHANGED <<net, log, stage, LIMITS, plan, db, client, boot, now, revoked>>

\* the handler has its rate_info and leaves check_rate_limit behind
Checked(answer) ==
    /\ req.pc = "limit"
    /\ Leave(Caller)
    /\ req' = [req EXCEPT !.pc = "responded", !.rate_info = frame[Caller].result,
                          !.status = Some(answer.status), !.detail = answer.detail,
                          !.did = answer.did]
    /\ UNCHANGED <<net, ops, log, stage, LIMITS, plan, db, client, boot, now, revoked>>

\* a refusal answered after the user has been looked up
DeniedAfterLookup ==
    /\ frame[Caller].pc = "done"
    /\ \E d \in frame[Caller].result :
          /\ ~d.allowed
          /\ Checked([status |-> "429", detail |-> d.reset, did |-> {"lookup"}])

\* `if not rate_info["allowed"]: raise HTTPException(429, f"... {rate_info['reset']} seconds")`
Denied ==
    /\ frame[Caller].pc = "done"
    /\ \E d \in frame[Caller].result :
          /\ ~d.allowed
          /\ Checked([status |-> "429", detail |-> d.reset, did |-> {}])

\* the check allowed the request: the handler goes one of its ways
Allowed(path) ==
    /\ frame[Caller].pc = "done"
    /\ path \in Paths(req.handler)
    /\ \E d \in frame[Caller].result :
          /\ d.allowed
          /\ Checked([status |-> path.status, detail |-> None, did |-> path.did])

\* the requests of one client: the budget of a client is its own (C5 is
\* about what the endpoints share), so one address tells the guard
ClientIp == CHOOSE ip \in Keys : \A other \in Keys : ip <= other

GuardNext ==
    \/ \E handler \in {"signup", "login", "refresh"} : Arrive(handler, ClientIp)
    \/ FirstSet(Caller) /\ UNCHANGED log
    \/ FirstReturn(Caller) /\ UNCHANGED log
    \/ MeteredRefuse(Caller) /\ UNCHANGED log
    \/ MeteredIncrement(Caller) /\ UNCHANGED log
    \/ MeteredAdmit(Caller) /\ UNCHANGED log
    \/ Denied
    \/ \E handler \in {"signup", "login", "refresh"} :
            \E path \in Paths(handler) : Allowed(path)
    \/ Expire(EndpointTick)

GuardSpec == EndpointInit /\ [][GuardNext]_vars

\* ------------------------------------------------- tokens and sessions
\*
\* One request is handled at a time.  A token is the payload the server has
\* signed: create_access_token and create_refresh_token put "sub", "exp",
\* "iat" (both in whole seconds of the clock) and "type" into it and nothing
\* else, so two tokens of one type for one user issued in the same second
\* are the same string.

MaxUsers == 2
MaxSessions == 2
MaxWorkers == 3
MaxClock == 2
\* settings.ACCESS_TOKEN_EXPIRE_MINUTES and REFRESH_TOKEN_EXPIRE_DAYS, in
\* ticks of the clock
AccessLife == 1
RefreshLife == 2

Emails == {<<"mail", i>> : i \in 1..MaxUsers}

create_access_token(sub) ==
    [type |-> "access", sub |-> sub, iat |-> now, exp |-> now + AccessLife,
     signed |-> TRUE]

create_refresh_token(sub) ==
    [type |-> "refresh", sub |-> sub, iat |-> now, exp |-> now + RefreshLife,
     signed |-> TRUE]

\* the tokens a client can send: what the server can have signed, and a
\* string that carries no valid signature
Tokens ==
    {[type |-> "access", sub |-> u, iat |-> i, exp |-> i + AccessLife,
      signed |-> TRUE] : u \in 1..MaxUsers, i \in 0..MaxClock}
    \cup
    {[type |-> "refresh", sub |-> u, iat |-> i, exp |-> i + RefreshLife,
      signed |-> TRUE] : u \in 1..MaxUsers, i \in 0..MaxClock}
    \cup
    {[type |-> "refresh", sub |-> 1, iat |-> 0, exp |-> MaxClock, signed |-> FALSE]}

\* jwt.decode: the signature and the expiry are checked; JWTError -> 401
decode_token(token) ==
    IF token.signed /\ now <= token.exp
    THEN Ok([type |-> token.type, sub |-> token.sub])
    ELSE Raises("401")

\* a check that takes any token type
verify_token_type_any(payload, expected_type) == Ok(expected_type)

\* `if token_type != expected_type: raise HTTPException(401)`
verify_token_type(payload, expected_type) ==
    IF payload.type # expected_type THEN Raises("401") ELSE Ok(expected_type)

\* hashlib.sha256(token.encode()).hexdigest()
hash_token(token) == <<"sha256", token>>

\* decode, check the type, int(sub); any exception -> None
verify_refresh_token(token) ==
    LET payload == decode_token(token)
    IN  IF payload.raised THEN None
        ELSE IF verify_token_type(payload.value, "refresh").raised THEN None
        ELSE Some(payload.value.sub)

\* the dependency of the protected routes: 401, 403, or the user
get_current_user(token) ==
    LET payload == decode_token(token)
        users == IF payload.raised THEN {}
                 ELSE {u \in db.users : u.id = payload.value.sub}
    IN  IF payload.raised THEN Raises("401")
        ELSE IF verify_token_type(payload.value, "access").raised THEN Raises("401")
        ELSE IF users = {} THEN Raises("401")
        ELSE IF \E u \in users : ~u.is_active THEN Raises("403")
        ELSE Ok(CHOOSE u \in users : TRUE)

\* ------------------------------------------------ accounts in the database
\*
\* db holds the committed rows.  What the request's AsyncSession has added
\* or flushed and not committed is req.pending; a commit moves it into db, a
\* rollback or a failed flush or commit drops it.  check_rate_limit, the
\* first await of signup, login and refresh_token, is told here by its
\* answer only.

AuthFrame ==
    UNCHANGED <<limiterVars, net, ops, log, stage, LIMITS, plan, client, boot>>

\* session.commit(): the pending rows become rows of their tables
Committed(d, pending) ==
    [t \in DOMAIN d |-> d[t] \cup {x[2] : x \in {y \in pending : y[1] = t}}]

\* select(User).where(User.email == email)
get_user_by_email(email) == {u \in db.users : u.email = email}

\* the handler ends: it returns a response or an exception leaves it
Ends(pc, code) ==
    req' = [req EXCEPT !.pc = pc, !.status = Some(code), !.pending = {}]

\* an exception inside the handler: google_callback catches every Exception
\* and returns the redirect to the error page, the others let it leave
Fails(code) ==
    IF req.handler = "google_callback" THEN Ends("returned", "302")
    ELSE Ends("raised", code)

\* FastAPI calls the handler with its arguments and a session of get_db
Begin(handler, arg) ==
    /\ req.pc = "responded"
    /\ handler \in {"signup", "login", "google_callback"} =>
            arg \in Emails /\ Cardinality(db.user_sessions) < MaxSessions
    /\ handler \in {"refresh", "logout", "protected"} =>
            arg \in Tokens /\ \E u \in db.users : u.id = arg.sub
    /\ req' = [NoRequest EXCEPT !.handler = handler, !.pc = "handling", !.arg = Some(arg)]
    /\ UNCHANGED <<db, now, revoked>>
    /\ AuthFrame

\* `if not rate_info["allowed"]: raise HTTPException(429)`
Throttled ==
    /\ req.pc = "handling"
    /\ req.handler \in {"signup", "login", "refresh"}
    /\ Ends("raised", "429")
    /\ UNCHANGED <<db, now, revoked>>
    /\ AuthFrame

\* signup: `if existing_user: raise HTTPException(400)`, else create
SignupLookup ==
    /\ req.pc = "handling"
    /\ req.handler = "signup"
    /\ IF get_user_by_email(TheValue(req.arg)) # {}
       THEN Ends("raised", "400")
       ELSE req' = [req EXCEPT !.pc = "creating"]
    /\ UNCHANGED <<db, now, revoked>>
    /\ AuthFrame

\* google_callback: `if not user:` create, else last_login and commit
google_callback ==
    /\ req.pc = "handling"
    /\ req.handler = "google_callback"
    /\ LET users == get_user_by_email(TheValue(req.arg))
       IN  IF users = {}
           THEN req' = [req EXCEPT !.pc = "creating"]
           ELSE req' = [req EXCEPT !.pc = "created",
                                   !.user = Some((CHOOSE u \in users : TRUE).id)]
    /\ UNCHANGED <<db, now, revoked>>
    /\ AuthFrame

\* a creation that commits the user row before the subscription is added
AddUserCommitted ==
    /\ req.pc = "creating"
    /\ LET id == Cardinality(db.users) + 1
           user == [id |-> id, email |-> TheValue(req.arg), is_active |-> TRUE]
       IN  /\ db' = Committed(db, {<<"users", user>>})
           /\ req' = [req EXCEPT !.pc = "flushed", !.user = Some(id)]
    /\ UNCHANGED <<now, revoked>>
    /\ AuthFrame

\* create_user_with_subscription: db.add(user); await db.flush()
AddUser ==
    /\ req.pc = "creating"
    /\ LET id == Cardinality(db.users) + 1
           user == [id |-> id, email |-> TheValue(req.arg), is_active |-> TRUE]
       IN  req' = [req EXCEPT !.pc = "flushed", !.user = Some(id),
                              !.pending = {<<"users", user>>}]
    /\ UNCHANGED <<db, now, revoked>>
    /\ AuthFrame

\* create_user_with_subscription: db.add(subscription); await db.commit()
create_user_with_subscription ==
    /\ req.pc = "flushed"
    /\ LET subscription ==
               [id |-> Cardinality(db.subscriptions) + 1, user_id |-> TheValue(req.user),
                plan_type |-> "FREE", status |-> "ACTIVE"]
       IN  db' = Committed(db, req.pending \cup {<<"subscriptions", subscription>>})
    /\ req' = [req EXCEPT !.pc = "created", !.pending = {}]
    /\ UNCHANGED <<now, revoked>>
    /\ AuthFrame

\* login: the user, the password, is_active, then last_login and commit
LoginCredentials(password_ok) ==
    /\ req.pc = "handling"
    /\ req.handler = "login"
    /\ LET users == get_user_by_email(TheValue(req.arg))
       IN  IF users = {} \/ ~password_ok THEN Ends("raised", "401")
           ELSE IF \E u \in users : ~u.is_active THEN Ends("raised", "403")
           ELSE req' = [req EXCEPT !.pc = "created",
                                   !.user = Some((CHOOSE u \in users : TRUE).id)]
    /\ UNCHANGED <<db, now, revoked>>
    /\ AuthFrame

\* create_user_session: the refresh token, its hash in a new row, commit;
\* the handler returns the token response
create_user_session ==
    /\ req.pc = "created"
    /\ LET token == create_refresh_token(TheValue(req.user))
           ids == {r.id : r \in db.user_sessions}
           session ==
               [id |-> CHOOSE i \in 1..(MaxSessions + 1) : i \notin ids,
                user_id |-> TheValue(req.user),
                refresh_token_hash |-> hash_token(token),
                expires_at |-> now + RefreshLife]
       IN  /\ db' = Committed(db, req.pending \cup {<<"user_sessions", session>>})
           /\ req' = [req EXCEPT !.pc = "returned", !.pending = {},
                                  !.status =
                                      Some(CASE req.handler = "signup" -> "201"
                                             [] req.handler = "login" -> "200"
                                             [] req.handler = "google_callback" -> "302"),
                                  !.detail = Some(token)]
    /\ UNCHANGED <<now, revoked>>
    /\ AuthFrame

\* refresh_token after the rate check: the token, the session row by its
\* hash and its expiry (scalar_one_or_none raises on two rows), the user
RefreshSession ==
    /\ req.pc = "handling"
    /\ req.handler = "refresh"
    /\ LET token == TheValue(req.arg)
           user_id == verify_refresh_token(token)
           sessions == {r \in db.user_sessions :
                           /\ r.refresh_token_hash = hash_token(token)
                           /\ r.expires_at > now}
           users == {u \in db.users : user_id = Some(u.id)}
       IN  IF user_id = None THEN Ends("raised", "401")
           ELSE IF Cardinality(sessions) > 1 THEN Ends("raised", "500")
           ELSE IF sessions = {} THEN Ends("raised", "401")
           ELSE IF users = {} \/ \E u \in users : ~u.is_active THEN Ends("raised", "401")
           ELSE req' = [req EXCEPT !.pc = "returned", !.status = Some("200"),
                                   !.user = user_id,
                                   !.detail = Some(create_access_token(TheValue(user_id)))]
    /\ UNCHANGED <<db, now, revoked>>
    /\ AuthFrame

\* logout: the session row by the hash of the token; `if session:` delete
\* and commit; "Logged out successfully" either way
logout ==
    /\ req.pc = "handling"
    /\ req.handler = "logout"
    /\ LET token == TheValue(req.arg)
           sessions == {r \in db.user_sessions :
                           r.refresh_token_hash = hash_token(token)}
       IN  IF Cardinality(sessions) > 1
           THEN Ends("raised", "500") /\ UNCHANGED <<db, revoked>>
           ELSE /\ db' = [db EXCEPT !.user_sessions = @ \ sessions]
                /\ revoked' = IF sessions = {} THEN revoked ELSE Some(token)
                /\ Ends("returned", "200")
    /\ UNCHANGED now
    /\ AuthFrame

\* a route that depends on get_current_user
Protected ==
    /\ req.pc = "handling"
    /\ req.handler = "protected"
    /\ LET user == get_current_user(TheValue(req.arg))
       IN  IF user.raised THEN Ends("raised", user.value)
           ELSE req' = [req EXCEPT !.pc = "returned", !.status = Some("200"),
                                   !.user = Some(user.value.id)]
    /\ UNCHANGED <<db, now, revoked>>
    /\ AuthFrame

\* the statement the handler awaits raises (the database is away, a
\* constraint fails): the transaction of the session is lost with it
DbFault ==
    /\ req.pc \in {"handling", "creating", "flushed", "created"}
    /\ Fails("500")
    /\ UNCHANGED <<db, now, revoked>>
    /\ AuthFrame

\* a dependency that commits whether the handler returned or raised
get_db_always_commits(commit_ok) ==
    /\ req.pc \in {"returned", "raised"}
    /\ db' = Committed(db, req.pending)
    /\ req' = [req EXCEPT !.pc = "responded", !.pending = {}, !.commits = @ + 1,
                          !.rollbacks = IF req.pc = "raised" THEN @ + 1 ELSE @,
                          !.did = IF req.pc = "raised" THEN {"reraise"} ELSE {}]
    /\ UNCHANGED <<now, revoked>>
    /\ AuthFrame

\* get_db: `yield session; await session.commit()`, and
\* `except Exception: await session.rollback(); raise`
get_db(commit_ok) ==
    /\ req.pc \in {"returned", "raised"}
    /\ IF req.pc = "returned" /\ commit_ok
       THEN /\ db' = Committed(db, req.pending)
            /\ req' = [req EXCEPT !.pc = "responded", !.pending = {}, !.commits = @ + 1]
       ELSE /\ db' = db
            /\ req' = [req EXCEPT !.pc = "responded", !.pending = {},
                                  !.commits = IF req.pc = "returned" THEN @ + 1 ELSE @,
                                  !.rollbacks = @ + 1,
                                  !.did = {"reraise"},
                                  !.status = IF req.pc = "returned" THEN Some("500") ELSE @]
    /\ UNCHANGED <<now, revoked>>
    /\ AuthFrame

\* the clock goes on
Later ==
    /\ now < MaxClock
    /\ now' = now + 1
    /\ UNCHANGED <<db, req, revoked>>
    /\ AuthFrame

\* an account is disabled (by code that is not in this repository)
Deactivate(id) ==
    /\ req.pc = "responded"
    /\ \E u \in db.users : u.id = id /\ u.is_active
    /\ db' = [db EXCEPT !.users =
                  {IF u.id = id THEN [u EXCEPT !.is_active = FALSE] ELSE u : u \in @}]
    /\ UNCHANGED <<req, now, revoked>>
    /\ AuthFrame

\* accounts are created: signup and the Google callback
CreateNext ==
    \/ \E handler \in {"signup", "google_callback"}, email \in Emails :
            Begin(handler, email)
    \/ Throttled
    \/ SignupLookup
    \/ google_callback
    \/ AddUser
    \/ create_user_with_subscription
    \/ create_user_session
    \/ DbFault
    \/ \E commit_ok \in BOOLEAN : get_db(commit_ok)

CreateSpec == EndpointInit /\ [][CreateNext]_vars

\* the first user has signed up: the rows signup has committed for it
Registered ==
    [NoRows EXCEPT
        !.users = {[id |-> 1, email |-> <<"mail", 1>>, is_active |-> TRUE]},
        !.subscriptions = {[id |-> 1, user_id |-> 1, plan_type |-> "FREE",
                            status |-> "ACTIVE"]}]

SessionInit ==
    /\ InitLimiter
    /\ rl = get_rate_limiter(DefaultRequests, DefaultWindow)
    /\ InitNet
    /\ InitMeters
    /\ InitLogin
    /\ InitPlan
    /\ InitIdle
    /\ db = Registered

\* a registered user logs in, refreshes, calls protected routes, logs out
SessionNext ==
    \/ \E email \in Emails : Begin("login", email)
    \/ \E handler \in {"refresh", "logout", "protected"}, token \in Tokens :
            Begin(handler, token)
    \/ Throttled
    \/ \E password_ok \in BOOLEAN : LoginCredentials(password_ok)
    \/ create_user_session
    \/ RefreshSession
    \/ logout
    \/ Protected
    \/ DbFault
    \/ \E commit_ok \in BOOLEAN : get_db(commit_ok)
    \/ Later
    \/ \E id \in 1..MaxUsers : Deactivate(id)

SessionSpec == SessionInit /\ [][SessionNext]_vars

\* ------------------------------------------- redis_client and the lifespan
\*
\* client is the RedisClient wrapper: its _pool, its _client, and how its
\* last connect or close ended.  boot is the lifespan: where it is, its
\* failed_critical list, and which checks it has attempted and passed.
\* The ping is awaited without a timeout: against a server that holds the
\* connection open and does not answer it stays pending.

BootFrame ==
    UNCHANGED <<limiterVars, ops, log, stage, LIMITS, plan, db, req, now, revoked>>

\* RedisClient.connect: the wrapper after the call.  `if self._client is not
\* None: return self._client`; ConnectionPool.from_url may raise; _pool and
\* _client are assigned before `await self._client.ping()`; the except
\* clause logs and re-raises
Connected(c, url_ok, ping_ok) ==
    IF c._client # None THEN [c EXCEPT !.last = "returned"]
    ELSE IF ~url_ok THEN [c EXCEPT !.last = "raised"]
    ELSE [_pool |-> Some("ConnectionPool"), _client |-> Some("Redis"),
          last |-> IF ping_ok THEN "returned" ELSE "raised"]

\* a coroutine of the running application awaits redis_client.connect()
connect(url_ok) ==
    /\ boot.pc = "running"
    /\ net # "silent"
    /\ client' = Connected(client, url_ok, net = "up")
    /\ client' # client
    /\ UNCHANGED <<net, boot>>
    /\ BootFrame

\* RedisClient.close
close ==
    /\ boot.pc = "running"
    /\ client' = [_pool |-> None, _client |-> None, last |-> "closed"]
    /\ client' # client
    /\ UNCHANGED <<net, boot>>
    /\ BootFrame

\* lifespan: `async with engine.begin() as conn: SELECT 1`, in try/except
DatabaseCheck(ok) ==
    /\ boot.pc = "created"
    /\ boot' = [boot EXCEPT
                  !.pc = "redis",
                  !.attempted = @ \cup {"database"},
                  !.passed = IF ok THEN @ \cup {"database"} ELSE @,
                  !.failed_critical = IF ok THEN @ ELSE Append(@, "database")]
    /\ UNCHANGED <<net, client>>
    /\ BootFrame

\* a Redis check whose failure is logged and not recorded
RedisCheckLogsOnly(url_ok) ==
    /\ boot.pc = "redis"
    /\ net # "silent"
    /\ client' = Connected(client, url_ok, net = "up")
    /\ boot' = [boot EXCEPT
                  !.pc = "decide",
                  !.attempted = @ \cup {"redis"},
                  !.passed = IF client'.last = "returned" THEN @ \cup {"redis"} ELSE @]
    /\ UNCHANGED net
    /\ BootFrame

\* lifespan: `await redis_client.ping()` (connect, then ping), in try/except
RedisCheck(url_ok) ==
    /\ boot.pc = "redis"
    /\ net # "silent"
    /\ client' = Connected(client, url_ok, net = "up")
    /\ LET ok == client'.last = "returned" /\ net = "up"
       IN  boot' = [boot EXCEPT
                      !.pc = "decide",
                      !.attempted = @ \cup {"redis"},
                      !.passed = IF ok THEN @ \cup {"redis"} ELSE @,
                      !.failed_critical = IF ok THEN @ ELSE Append(@, "redis")]
    /\ UNCHANGED net
    /\ BootFrame

\* lifespan: `if failed_critical: raise RuntimeError("Cannot start: ...")`
Decide ==
    /\ boot.pc = "decide"
    /\ boot' = IF boot.failed_critical # << >>
               THEN [boot EXCEPT !.pc = "aborted", !.error = Some(boot.failed_critical)]
               ELSE [boot EXCEPT !.pc = "celery"]
    /\ UNCHANGED <<net, client>>
    /\ BootFrame

\* lifespan: worker_count = await check_celery_workers(), which returns the
\* number of workers, 0, or None when the inspection raised; then `yield`
check_celery_workers(worker_count) ==
    /\ boot.pc = "celery"
    /\ boot' = [boot EXCEPT !.pc = "running", !.worker_count = worker_count]
    /\ UNCHANGED <<net, client>>
    /\ BootFrame

\* lifespan after the yield: engine.dispose(), redis_client.close()
Shutdown ==
    /\ boot.pc = "running"
    /\ boot' = [boot EXCEPT !.pc = "stopped"]
    /\ client' = [_pool |-> None, _client |-> None, last |-> "closed"]
    /\ UNCHANGED net
    /\ BootFrame

BootNext ==
    \/ \E ok \in BOOLEAN : DatabaseCheck(ok)
    \/ \E url_ok \in BOOLEAN : RedisCheck(url_ok)
    \/ Decide
    \/ \E n \in {None} \cup {Some(k) : k \in 0..MaxWorkers} : check_celery_workers(n)
    \/ \E url_ok \in BOOLEAN : connect(url_ok)
    \/ close
    \/ Shutdown
    \/ \E n \in NetStates : Net(n)

BootSpec == EndpointInit /\ [][BootNext]_vars

\* ------------------------------------------------------------ properties

Done(p) == frame[p].pc = "done"
Result(p) == TheValue(frame[p].result)
CountOf(rk) == IntOf(store[rk].val)

\* the key of p's call is live in a window that a first request opened
InOpenWindow(p) == KeyOf(p) \in DOMAIN store /\ store[KeyOf(p)].ttl # NoExpiry

\* C1: calls that do not overlap, on a key whose window a first request opened
\* and that has not expired: the i-th call is allowed for every i <= requests,
\* and its `remaining` is requests - i (so requests-1, requests-2, ..., 0);
\* nothing is refused before `requests` calls were allowed.
C1_FreshKeyAdmitsN ==
    \A p \in Procs :
        (Done(p) /\ InOpenWindow(p)) =>
            LET d == Result(p)
                w == win[KeyOf(p)]
                N == frame[p].self.requests
            IN  /\ d.allowed => (w.admitted <= N /\ d.remaining = N - w.admitted)
                /\ ~d.allowed => w.admitted >= N

\* the last of MaxRequests calls in a window was allowed with nothing remaining
C1_Witness ==
    \E p \in Procs :
        /\ Done(p) /\ InOpenWindow(p)
        /\ frame[p].self.requests = MaxRequests
        /\ Result(p).allowed /\ Result(p).remaining = 0
        /\ win[KeyOf(p)].admitted = MaxRequests

\* C2: calls that do not overlap: a call that has read the key while its
\* stored count is at or above `requests` takes one more step, which returns
\* allowed = false with remaining = 0 and leaves the store as it is.
C2_RefusalChangesNothing ==
    [][\A p \in Procs :
        (/\ frame[p].pc = "got"
         /\ KeyOf(p) \in DOMAIN store
         /\ CountOf(KeyOf(p)) >= frame[p].self.requests
         /\ frame'[p] # frame[p])
        => /\ frame'[p].pc = "done"
           /\ frame'[p].result # None
           /\ \A d \in frame'[p].result : ~d.allowed /\ d.remaining = 0
           /\ store' = store]_vars

\* a refusal has been returned while the stored count stands at `requests`
C2_Witness ==
    \E p \in Procs :
        /\ Done(p) /\ InOpenWindow(p)
        /\ ~Result(p).allowed /\ Result(p).remaining = 0
        /\ CountOf(KeyOf(p)) = frame[p].self.requests
        /\ win[KeyOf(p)].admitted = frame[p].self.requests

C4_ResetWithinWindow ==
    \A p \in Procs :
        Done(p) =>
            /\ Result(p).reset # None
            /\ \A r \in Result(p).reset : 0 <= r /\ r <= frame[p].self.window

\* C5: the first request an address makes under a scope is never refused,
\* whatever the same address has spent under the other scopes.
C5_ScopesDoNotShareBudget ==
    \A p \in Procs :
        (Done(p) /\ <<TheValue(frame[p].key), frame[p].scope>> \notin served)
        => Result(p).allowed

\* C6: every entry of the store has an expiry, at most one window away.
C6_EveryEntryExpires ==
    \A rk \in DOMAIN store :
        /\ store[rk].ttl # NoExpiry
        /\ store[rk].ttl <= rl.window

\* C7: a call that has read a count at or above `requests` and finds the key
\* gone when it reads the ttl opens a new window: count 1, a whole window to
\* live, allowed = true, remaining = requests - 1.
C7_ExpiryRaceResetsWindow ==
    [][\A p \in Procs :
        (/\ frame[p].pc = "got"
         /\ frame[p].current # None
         /\ KeyOf(p) \notin DOMAIN store
         /\ IntOf(TheValue(frame[p].current)) >= frame[p].self.requests
         /\ frame'[p].pc = "done")
        => /\ KeyOf(p) \in DOMAIN store'
           /\ store'[KeyOf(p)] = [val |-> "1", ttl |-> frame[p].self.window]
           /\ \A d \in frame'[p].result :
                d.allowed /\ d.remaining = frame[p].self.requests - 1]_vars

\* C8: a limiter of one request per window allows at most two calls in one
\* window of a key.
C8_AtMostOneExtraAdmission ==
    \A rk \in RedisKeys : rl.requests = 1 => win[rk].admitted <= 2

\* C9: when two first requests of one window have both been allowed and
\* nothing else is in flight, the stored count is 2.
C9_RacingFirstsBothCounted ==
    \A p, q \in Procs :
        (/\ p # q
         /\ Done(p) /\ Done(q)
         /\ frame[p].branch = "set" /\ frame[q].branch = "set"
         /\ KeyOf(p) = KeyOf(q)
         /\ \A o \in Procs \ {p, q} : frame[o].pc = "idle"
         /\ KeyOf(p) \in DOMAIN store
         /\ win[KeyOf(p)].admitted = 2 /\ win[KeyOf(p)].sets = 2)
        => CountOf(KeyOf(p)) = 2

\* C10: no step lowers the stored count of a key that is live before and
\* after the step.
C10_CountNeverDrops ==
    [][\A rk \in DOMAIN store :
        rk \in DOMAIN store' => IntOf(store'[rk].val) >= IntOf(store[rk].val)]_vars

\* the admissions returned for rk within the last `window` seconds (the
\* current second and the window - 1 before it)
RecentAdmissions(rk) ==
    LET sum[a \in -1..(MaxWindow - 1)] ==
            IF a < 0 THEN 0 ELSE sum[a - 1] + (IF a < rl.window THEN log[rk][a] ELSE 0)
    IN  sum[MaxWindow - 1]

\* C11: calls on one key that do not overlap: the allowed decisions returned
\* within any `window` consecutive seconds number at most 2 * requests.
C11_AtMostTwiceTheLimit ==
    \A rk \in RedisKeys : RecentAdmissions(rk) <= 2 * rl.requests

\* the bound is reached: a window of MaxRequests admissions is followed, less
\* than `window` seconds after its first admission was returned, by the
\* MaxRequests admissions of the next
C11_Witness ==
    \E rk \in RedisKeys :
        /\ rl.requests = MaxRequests
        /\ rl.window = MaxWindow
        /\ RecentAdmissions(rk) = 2 * MaxRequests
        /\ \A a \in 0..(MaxWindow - 1) : log[rk][a] > 0

\* C12, as stated: every call that has returned issued exactly one get, at
\* most one write (a set or an incr, never both) and exactly one ttl read.
C12_OneTtlReadOnEveryBranch ==
    \A p \in Procs :
        Done(p) =>
            /\ ops[p].get = 1
            /\ ops[p].set + ops[p].incr <= 1
            /\ ops[p].ttl = 1

\* C12, amended: every call that has returned issued exactly one get and at
\* most one write; the call that found the key absent issued one set and no
\* ttl read, the refused call no write and one ttl read, the call admitted
\* under the limit one incr and one ttl read.
C12_OpsPerBranch ==
    \A p \in Procs :
        Done(p) =>
            /\ ops[p].get = 1
            /\ ops[p].set + ops[p].incr <= 1
            /\ frame[p].branch = "set" =>
                    ops[p].set = 1 /\ ops[p].incr = 0 /\ ops[p].ttl = 0
            /\ frame[p].branch = "deny" =>
                    ops[p].set = 0 /\ ops[p].incr = 0 /\ ops[p].ttl = 1
            /\ frame[p].branch = "incr" =>
                    ops[p].set = 0 /\ ops[p].incr = 1 /\ ops[p].ttl = 1

\* a first request has returned after one get and one set, without a ttl read
C12_Witness ==
    \E p \in Procs :
        /\ Done(p)
        /\ frame[p].branch = "set"
        /\ ops[p] = [get |-> 1, set |-> 1, incr |-> 0, ttl |-> 0]
        /\ Result(p).reset = Some(frame[p].self.window)

Awaiting(p) == frame[p].pc \in {"got", "wrote", "incred"}

C15_StoreCallReturns ==
    \A p \in Procs : Awaiting(p) ~> (frame[p].pc \in {"done", "raised"})

\* C14: a limiter whose requests or window is 0 or less never hands out a
\* Decision and never writes to the store.
C14_InvalidConfigurationRejected ==
    (rl.requests <= 0 \/ rl.window <= 0) =>
        /\ store = << >>
        /\ \A p \in Procs : frame[p].result = None

\* C16: login looks the user up, checks the password or issues tokens only
\* while it holds an allowed Decision of its own rate check; while the store
\* refuses, no step of the rate check yields a Decision: the call raises;
\* and a login whose rate check has raised goes nowhere but to HTTP 500.
C16_LoginFailsClosed ==
    /\ [](\A p \in Procs :
            stage[p] \in Working =>
                /\ Done(p)
                /\ frame[p].scope = "login"
                /\ Result(p).allowed)
    /\ [][\A p \in Procs :
            (net = "down" /\ frame'[p] # frame[p] /\ frame[p].pc \in {"idle", "got", "incred"})
            => frame'[p].pc = "raised" /\ frame'[p].result = None]_vars
    /\ [][\A p \in Procs :
            (frame[p].pc = "raised" /\ stage'[p] # stage[p])
            => stage[p] = "none" /\ stage'[p] = "500"]_vars

\* the store is away, the rate check of a login has raised after its incr
\* was refused, and the request has been answered with 500
C16_Witness ==
    \E p \in Procs :
        /\ net = "down"
        /\ frame[p].pc = "raised"
        /\ frame[p].scope = "login"
        /\ frame[p].current # None
        /\ stage[p] = "500"

Returned(fn) == plan.fn = fn /\ plan.pc = "returned"

\* C17: get_limits returns, without raising, the record of the table for
\* FREE, PRO and PRO_PLUS and the FREE record for every other argument.
C17_GetLimitsIsTotal ==
    Returned("get_limits") =>
        /\ plan.out # None
        /\ \A r \in plan.out :
            /\ ~r.raised
            /\ \A t \in {"FREE", "PRO", "PRO_PLUS"} :
                    plan.plan_type = Some(t) => r.value = LimitsTable[t]
            /\ plan.plan_type \notin {Some("FREE"), Some("PRO"), Some("PRO_PLUS")} =>
                    r.value = LimitsTable["FREE"]

\* get_limits(None) has returned the FREE record
C17_Witness ==
    /\ Returned("get_limits")
    /\ plan.plan_type = None
    /\ plan.out = Some(Ok(LimitsTable["FREE"]))

\* the features of the record the table holds for t, FREE's for any t that
\* is no plan of the table
FeaturesFor(plan_type) ==
    LET known == plan_type \in {Some("FREE"), Some("PRO"), Some("PRO_PLUS")}
        features == LimitsTable[IF known THEN TheValue(plan_type) ELSE "FREE"].features
    IN  {features[i] : i \in DOMAIN features}

\* C18: has_feature returns, without raising, true when the feature is in the
\* feature list of the plan's record (the FREE record for an unknown plan)
\* and false when it is not.
C18_HasFeatureIsMembership ==
    Returned("has_feature") =>
        plan.out = Some(Ok(plan.feature \in FeaturesFor(plan.plan_type)))

\* has_feature has answered True for a listed feature of a plan the table
\* does not know
C18_Witness ==
    /\ Returned("has_feature")
    /\ plan.plan_type = Some("ENTERPRISE")
    /\ plan.feature = "pivot_tables"
    /\ plan.out = Some(Ok(TRUE))

\* C19: get_ai_message_limit is 10 for FREE and 10000 for PRO_PLUS,
\* get_tool_usage_limit is 4 for FREE and 3000 for PRO, and has_feature of
\* FREE is true for "data_cleaning" and false for "nonexistent_feature".
C19_LimitsOfThePlans ==
    /\ (Returned("get_ai_message_limit") /\ plan.plan_type = Some("FREE"))
            => plan.out = Some(Ok(10))
    /\ (Returned("get_ai_message_limit") /\ plan.plan_type = Some("PRO_PLUS"))
            => plan.out = Some(Ok(10000))
    /\ (Returned("get_tool_usage_limit") /\ plan.plan_type = Some("FREE"))
            => plan.out = Some(Ok(4))
    /\ (Returned("get_tool_usage_limit") /\ plan.plan_type = Some("PRO"))
            => plan.out = Some(Ok(3000))
    /\ (Returned("has_feature") /\ plan.plan_type = Some("FREE")
            /\ plan.feature = "data_cleaning")
            => plan.out = Some(Ok(TRUE))
    /\ (Returned("has_feature") /\ plan.plan_type = Some("FREE")
            /\ plan.feature = "nonexistent_feature")
            => plan.out = Some(Ok(FALSE))

\* get_tool_usage_limit(FREE) has returned 4
C19_Witness ==
    /\ Returned("get_tool_usage_limit")
    /\ plan.plan_type = Some("FREE")
    /\ plan.out = Some(Ok(4))

\* C20: every record of the table, and every record get_limits hands out,
\* gives the tool-use reset period in exactly one unit and with a positive
\* value: 12 hours for FREE (and for every argument that falls back to it),
\* 30 days for PRO and PRO_PLUS.
C20_OneResetUnitPerPlan ==
    LET OneUnit(rec, unit, value) ==
            /\ DOMAIN rec \cap {"tool_usage_reset_hours", "tool_usage_reset_days"} = {unit}
            /\ rec[unit] = value
            /\ rec[unit] > 0
    IN  /\ DOMAIN LIMITS = {"FREE", "PRO", "PRO_PLUS"}
        /\ OneUnit(LIMITS["FREE"], "tool_usage_reset_hours", 12)
        /\ OneUnit(LIMITS["PRO"], "tool_usage_reset_days", 30)
        /\ OneUnit(LIMITS["PRO_PLUS"], "tool_usage_reset_days", 30)
        /\ Returned("get_limits") =>
                \A r \in plan.out :
                    /\ ~r.raised
                    /\ IF plan.plan_type \in {Some("PRO"), Some("PRO_PLUS")}
                       THEN OneUnit(r.value, "tool_usage_reset_days", 30)
                       ELSE OneUnit(r.value, "tool_usage_reset_hours", 12)

\* get_limits(PRO) has handed out a record with a reset period of 30 days
\* and no period in hours
C20_Witness ==
    /\ Returned("get_limits")
    /\ plan.plan_type = Some("PRO")
    /\ \A r \in plan.out :
            /\ "tool_usage_reset_hours" \notin DOMAIN r.value
            /\ r.value.tool_usage_reset_days = 30

\* C21: the plan table is read-only after process start: neither a call of
\* the classmethods nor a caller holding a value one of them returned changes
\* a plan's record, so LIMITS is the table of the class body in every state.
C21_TableIsReadOnly == LIMITS = LimitsTable

C25_TtlAnswers ==
    [][\A p \in Procs :
        (/\ frame[p].pc \in {"got", "incred"}
         /\ frame'[p].pc = "done"
         /\ frame'[p].branch \in {"deny", "incr"})
        => \A d \in frame'[p].result :
              d.reset = Some(ServerTtl(store, KeyOf(p)))]_vars

\* C23: in signup, login and refresh the rate-limit check is the first effect
\* of the request and runs once: while it runs the handler has done nothing
\* else; a request it denied is answered 429 with the reset of the Decision
\* and has looked up no user, created no user or session and issued no
\* token; whatever the handler has done, it did with an allowed Decision in
\* hand; and a request has written to the store at most once (one SET or one
\* INCR), after one GET.
C23_CheckComesFirst ==
    /\ req.pc = "limit" => req.did = {}
    /\ req.handler # "none" =>
          /\ ops[Caller].get = 1
          /\ ops[Caller].set + ops[Caller].incr <= 1
    /\ (req.handler # "none" /\ req.pc = "responded") =>
          /\ req.rate_info # None
          /\ \A d \in req.rate_info :
                /\ ~d.allowed =>
                      /\ req.status = Some("429")
                      /\ req.detail = d.reset
                      /\ req.did = {}
                      /\ ops[Caller].set + ops[Caller].incr = 0
                /\ d.allowed =>
                      /\ req.status # Some("429")
                      /\ ops[Caller].set + ops[Caller].incr = 1

\* a request was answered 429 with the seconds left of the window, and
\* nothing was done for it
C23_Witness ==
    /\ req.pc = "responded"
    /\ req.status = Some("429")
    /\ \E seconds \in 1..SignupWindow : req.detail = Some(seconds)
    /\ req.did = {}
    /\ ops[Caller] = [NoOps EXCEPT !.get = 1, !.ttl = 1]

\* C22: every committed user row, whether signup or the Google callback
\* created it, has exactly one subscription row, and that row is FREE and
\* ACTIVE; no user is committed without one, none gets a second one, and no
\* subscription is committed for a user that is not.
C22_OneFreeSubscriptionPerUser ==
    /\ \A u \in db.users :
          LET subs == {x \in db.subscriptions : x.user_id = u.id}
          IN  /\ Cardinality(subs) = 1
              /\ \A x \in subs : x.plan_type = "FREE" /\ x.status = "ACTIVE"
    /\ \A x \in db.subscriptions : \E u \in db.users : u.id = x.user_id

\* the Google callback has created the last of MaxUsers accounts
C22_Witness ==
    /\ req.handler = "google_callback"
    /\ req.pc = "responded"
    /\ req.status = Some("302")
    /\ req.detail # None
    /\ Cardinality(db.users) = MaxUsers
    /\ Cardinality(db.subscriptions) = MaxUsers

\* C26: after a logout with a refresh token (its session row deleted and
\* the deletion committed), no later refresh that carries that token
\* succeeds.
C26_LoggedOutTokenStaysOut ==
    ~(/\ req.handler = "refresh"
      /\ req.status = Some("200")
      /\ revoked # None
      /\ req.arg = revoked)

\* C27: a protected route answers 200 only to a token of type "access", and
\* verify_refresh_token gives a user id only for a token of type "refresh";
\* so refresh answers 200 only to a refresh token.
C27_TokenTypesAreKeptApart ==
    /\ (req.handler = "protected" /\ req.status = Some("200"))
            => \A token \in req.arg : token.type = "access"
    /\ \A token \in Tokens :
            verify_refresh_token(token) # None => token.type = "refresh"
    /\ (req.handler = "refresh" /\ req.status = Some("200"))
            => \A token \in req.arg : token.type = "refresh"

\* a refresh token that is signed, unexpired, backed by a live session of an
\* active user, has been refused by a protected route
C27_Witness ==
    /\ req.handler = "protected"
    /\ req.pc = "responded"
    /\ req.status = Some("401")
    /\ \E token \in req.arg :
          /\ token.type = "refresh"
          /\ verify_refresh_token(token) = Some(token.sub)
          /\ \E r \in db.user_sessions :
                r.refresh_token_hash = hash_token(token) /\ r.expires_at > now
          /\ \E u \in db.users : u.id = token.sub /\ u.is_active

\* C29: get_db ends a request whose handler returned with one commit and,
\* that commit succeeding, no rollback; it ends a request whose handler
\* raised with one rollback and no commit, and the exception goes on to the
\* caller with its status.  (A commit that raises is itself followed by the
\* rollback and re-raised.)
C29_CommitOrRollback ==
    [][/\ (req.pc = "returned" /\ req'.pc = "responded") =>
            /\ req'.commits = 1
            /\ \/ /\ req'.rollbacks = 0
                  /\ req'.did = {}
                  /\ req'.status = req.status
                  /\ db' = Committed(db, req.pending)
               \/ /\ req'.rollbacks = 1
                  /\ req'.did = {"reraise"}
                  /\ req'.status = Some("500")
                  /\ db' = db
       /\ (req.pc = "raised" /\ req'.pc = "responded") =>
            /\ req'.commits = 0
            /\ req'.rollbacks = 1
            /\ req'.did = {"reraise"}
            /\ req'.status = req.status
            /\ db' = db]_vars

\* a signup for a registered address was refused with 400: rolled back once,
\* never committed by get_db
C29_Witness ==
    /\ req.handler = "signup"
    /\ req.pc = "responded"
    /\ req.status = Some("400")
    /\ req.commits = 0
    /\ req.rollbacks = 1
    /\ req.did = {"reraise"}

\* C28: a connect that raised has left no client behind (so that the next
\* connect tries again), and after close the client and the pool are None.
C28_FailedConnectLeavesNoClient ==
    /\ client.last = "raised" => client._client = None
    /\ client.last = "closed" => client._client = None /\ client._pool = None

\* C30: the lifespan gets past its checks only when the database check and
\* the Redis ping both succeeded; when it aborts, both checks were attempted
\* and the RuntimeError names the critical services that failed, all of
\* them; and from the Celery check it goes on to serve whatever the check
\* returned.
C30_StartsOnlyWhenCriticalServicesAnswer ==
    /\ [](boot.pc \in {"celery", "running", "stopped"}
            => boot.passed = {"database", "redis"} /\ boot.error = None)
    /\ [](boot.pc = "aborted"
            => /\ boot.attempted = {"database", "redis"}
               /\ boot.error # None
               /\ \A names \in boot.error :
                     /\ names # << >>
                     /\ {names[i] : i \in DOMAIN names}
                            = {"database", "redis"} \ boot.passed)
    /\ [][boot.pc = "celery" /\ boot' # boot => boot'.pc = "running"]_vars

\* the application serves although the Celery inspection failed
C30_Witness ==
    /\ boot.pc = "running"
    /\ boot.worker_count = None
    /\ boot.passed = {"database", "redis"}

====
